---- MODULE Spec2Model ----
(***************************************************************************)
(* BANE (Binarized Attributed Network Embedding): main.py's pipeline       *)
(*   read_graph -> read_features -> BANE.fit -> BANE.save_embedding        *)
(* with BANE.binary_optimize stepped one statement (update_G, update_Q)    *)
(* or one dimension update of update_B at a time.                          *)
(*                                                                         *)
(* Matrices are functions [0..r-1 -> [0..c-1 -> Int]], 0-based like the    *)
(* numpy arrays.  Real matrices are kept exactly: the kernel G and the     *)
(* rescaled target Q are a numerator matrix over one denominator, so that  *)
(* the sign of a residual is the sign of an integer.  Inputs (propagator,  *)
(* features, projected target, Gaussian sample) are small integer          *)
(* matrices; a Gaussian draw is represented by -1, 0 or 1.                 *)
(***************************************************************************)
EXTENDS Integers, Sequences, FiniteSets, TLC

\* ------------------------------------------------------------ bounds
NumNodes == 3      \* n: nodes of the graph (rows of P, X, B, Q)
MaxDim == 3        \* args.dimensions ranges over 1..MaxDim
MaxRounds == 2     \* args.binarization_rounds ranges over -1..MaxRounds
MaxApprox == 2     \* args.approximation_rounds ranges over -1..MaxApprox
MaxOrder == 2      \* args.order ranges over 1..MaxOrder
MaxData == 2       \* input data sets 0..MaxData; data set k has k+1 features
MaxTarget == 3     \* projected targets 0..MaxTarget the SVD primitive may return
MaxSample == 2     \* Gaussian samples 0..MaxSample

\* ------------------------------------------------------------ linear algebra
Rows == 0..(NumNodes - 1)

Idx(k) == 0..(k - 1)

\* Operands are bound as a \in {A} where an operator reads them many times:
\* the operand is then computed once, whatever the evaluation context.

RECURSIVE SumTo(_, _)
\* f[0] + ... + f[k-1]
SumTo(f, k) == IF k <= 0 THEN 0 ELSE f[k - 1] + SumTo(f, k - 1)

RECURSIVE Pow3(_)
Pow3(k) == IF k <= 0 THEN 1 ELSE 3 * Pow3(k - 1)

RECURSIVE Explicit(_, _)
\* the function f on 0..k-1 with every value computed (once)
Explicit(f, k) ==
    IF k <= 0 THEN <<>>
    ELSE CHOOSE e \in {Explicit(g, k - 1) @@ ((k - 1) :> g[k - 1]) : g \in {f}} : TRUE

\* an r x c array with every entry computed
Array(M, r, c) ==
    CHOOSE e \in {Explicit([i \in Idx(r) |-> Explicit(a[i], c)], r) : a \in {M}} : TRUE

\* The r x c matrix whose entries, row by row, are the base-3 digits of seed
\* (digit 2 standing for -1): an enumeration of the matrices over {-1, 0, 1}.
Trit(t) == IF t = 2 THEN -1 ELSE t

SeedMatrix(seed, r, c) ==
    Array([i \in Idx(r) |-> [j \in Idx(c) |-> Trit((seed \div Pow3(i * c + j)) % 3)]],
          r, c)

\* numpy.dot of an r x m matrix A and an m x c matrix Bm
MatMul(A, Bm, r, m, c) ==
    CHOOSE e \in {Array([i \in Idx(r) |-> [j \in Idx(c) |->
                            SumTo([k \in Idx(m) |-> a[i][k] * b[k][j]], m)]],
                        r, c) : a \in {A}, b \in {Bm}} : TRUE

\* ndarray.transpose() of an r x c matrix
Transpose(A, r, c) ==
    CHOOSE e \in {Array([j \in Idx(c) |-> [i \in Idx(r) |-> a[i][j]]], c, r) : a \in {A}} : TRUE

\* numpy.eye(d) scaled by a
ScaledEye(a, d) ==
    Array([i \in Idx(d) |-> [j \in Idx(d) |-> IF i = j THEN a ELSE 0]], d, d)

MatAdd(A, Bm, r, c) ==
    CHOOSE e \in {Array([i \in Idx(r) |-> [j \in Idx(c) |-> a[i][j] + b[i][j]]], r, c)
                    : a \in {A}, b \in {Bm}} : TRUE

\* the sequence s without its k-th element
Drop(s, k) == SubSeq(s, 1, k - 1) \o SubSeq(s, k + 1, Len(s))

IdxSeq(k) == [i \in 1..k |-> i - 1]

RECURSIVE DetOn(_, _, _)
\* determinant of the submatrix of M on the index sequences rows and cols
\* (Laplace expansion along the first row)
DetOn(M, rows, cols) ==
    CHOOSE e \in {IF Len(rs) = 0 THEN 1
                  ELSE SumTo([j \in Idx(Len(cs)) |->
                                 (IF j % 2 = 0 THEN 1 ELSE -1)
                                 * a[rs[1]][cs[j + 1]]
                                 * DetOn(a, Tail(rs), Drop(cs, j + 1))],
                             Len(cs))
                    : a \in {M}, rs \in {rows}, cs \in {cols}} : TRUE

Det(M, d) == DetOn(M, IdxSeq(d), IdxSeq(d))

\* adjugate: Adj[i][j] is the cofactor of M[j][i]; inv(M) = Adj(M) / Det(M)
Adj(M, d) ==
    CHOOSE e \in {Array([i \in Idx(d) |-> [j \in Idx(d) |->
                            (IF (i + j) % 2 = 0 THEN 1 ELSE -1)
                            * DetOn(a, Drop(IdxSeq(d), j + 1), Drop(IdxSeq(d), i + 1))]],
                        d, d) : a \in {M}} : TRUE

\* numpy.sign: -1, 0 or 1
Sign(x) == IF x > 0 THEN 1 ELSE IF x < 0 THEN -1 ELSE 0

Abs(x) == IF x < 0 THEN -x ELSE x

Max0(x) == IF x < 0 THEN 0 ELSE x

RECURSIVE Gcd(_, _)
Gcd(a, b) == IF b = 0 THEN a ELSE Gcd(b, a % b)

Lcm(a, b) == (a \div Gcd(a, b)) * b

\* ------------------------------------------------------------ inputs
\* normalize_adjacency's result for data set k (an n x n operator)
PropagatorOf(k) == SeedMatrix(1 + 347 * (k + 1), NumNodes, NumNodes)

\* the feature matrix of data set k: n rows, k+1 attribute columns
FeatureCount(k) == k + 1

FeaturesOf(k) == SeedMatrix(5 + 61 * k, NumNodes, FeatureCount(k))

\* what the rank-d projection may return: n x d matrices (number 0 is the
\* zero matrix)
TargetOf(k, d) == SeedMatrix(k * 2027, NumNodes, d)

RECURSIVE Pow2(_)
Pow2(k) == IF k <= 0 THEN 1 ELSE 2 * Pow2(k - 1)

\* numpy.random.normal(size=(n, d)), by the sign of each draw: the binary
\* digits of 5k choose negative or positive; draw number 0 has one entry that
\* is exactly 0.0
SampleOf(k, d) ==
    Array([i \in Idx(NumNodes) |-> [j \in Idx(d) |->
              IF k = 0 /\ i = 0 /\ j = 0 THEN 0
              ELSE IF ((5 * k) \div Pow2(i * d + j)) % 2 = 1 THEN 1 ELSE -1]],
          NumNodes, d)

ArgsSet ==
    [dimensions : 1..MaxDim,
     binarization_rounds : (-1)..MaxRounds,
     approximation_rounds : (-1)..MaxApprox,
     order : 1..MaxOrder,
     alpha : {0, 1}]

\* an attribute not yet assigned
Unset == <<>>

UnsetRational == [num |-> Unset, den |-> 1]

\* ------------------------------------------------------------ state
VARIABLES
    pc,          \* the statement main() is at
    args,        \* parameter_parser()'s result
    dataset,     \* which input files the paths name
    propagator,  \* read_graph's P
    powered_P,   \* read_graph's powered_P
    iter,        \* read_graph's loop counter
    X,           \* the feature matrix
    P,           \* main's P, then BANE.P
    B,           \* BANE.B
    G,           \* BANE.G, a rational matrix num / den
    Q,           \* BANE.Q, a rational matrix num / den
    rnd,         \* binary_optimize's loop counter
    sweep,       \* update_B's outer loop counter
    dim,         \* update_B's inner loop variable d
    out,         \* the file at args.output_path
    mults,       \* history: matrix products read_graph has done
    stages,      \* history: the pipeline steps completed, in order
    calls,       \* history: the optimizer's steps, in order
    B0,          \* history: B as binary_optimize initialised it
    Bhist,       \* history: B at every round boundary of the run
    sweepStart,  \* history: B when the current sweep began
    sweepLog,    \* history: the columns the current sweep has written
    run,         \* repeated-run driver: 0 main(), 1 direct, 2 first leg, 3 second leg
    ref,         \* repeated-run driver: Bhist of the direct run
    total,       \* repeated-run driver: binarization_rounds of the direct run
    stale        \* repeated-run driver: the leg began with an earlier run's G and Q

vars == <<pc, args, dataset, propagator, powered_P, iter, X, P, B, G, Q, rnd,
          sweep, dim, out, mults, stages, calls, B0, Bhist, sweepStart,
          sweepLog, run, ref, total, stale>>

graphVars == <<propagator, powered_P, iter, mults>>

loopVars == <<rnd, sweep, dim>>

sweepVars == <<sweepStart, sweepLog>>

driver == <<run, ref, total, stale>>

NoFile == <<>>

\* ------------------------------------------------------------ read_graph
\* the guard of the powering loop
NeedsPowering(order) == order > 1

\* mutant: range(args.order), one product too many
PowerIterationsOffByOne(order) == order

\* range(args.order-1)
PowerIterations(order) == order - 1

read_graph ==
    /\ pc = "read_graph"
    /\ propagator' = PropagatorOf(dataset)
    /\ powered_P' = propagator'
    /\ iter' = 0
    /\ IF NeedsPowering(args.order)
       THEN /\ pc' = "powering"
            /\ UNCHANGED <<P, stages>>
       ELSE /\ pc' = "read_features"
            /\ P' = powered_P'
            /\ stages' = Append(stages, "read_graph")
    /\ UNCHANGED <<args, dataset, X, B, G, Q, loopVars, out, mults, calls, B0,
                   Bhist, sweepVars, driver>>

\* one pass of the powering loop; the last pass returns powered_P to main
power_step ==
    /\ pc = "powering"
    /\ iter < PowerIterations(args.order)
    /\ powered_P' = MatMul(powered_P, propagator, NumNodes, NumNodes, NumNodes)
    /\ mults' = mults + 1
    /\ iter' = iter + 1
    /\ IF iter + 1 < PowerIterations(args.order)
       THEN UNCHANGED <<pc, P, stages>>
       ELSE /\ pc' = "read_features"
            /\ P' = powered_P'
            /\ stages' = Append(stages, "read_graph")
    /\ UNCHANGED <<args, dataset, propagator, X, B, G, Q, loopVars, out, calls,
                   B0, Bhist, sweepVars, driver>>

\* mutant: a handler that writes what there is before giving up
RaiseAfterSaving ==
    /\ pc' = "failed"
    /\ out' = [header |-> <<"id">>, rows |-> <<>>]
    /\ UNCHANGED <<args, dataset, graphVars, X, P, B, G, Q, loopVars, stages,
                   calls, B0, Bhist, sweepVars, driver>>

\* an exception leaves main(): nothing catches it
Raise ==
    /\ pc' = "failed"
    /\ UNCHANGED <<args, dataset, graphVars, X, P, B, G, Q, loopVars, out,
                   stages, calls, B0, Bhist, sweepVars, driver>>

\* pd.read_csv raises on a missing or malformed edge list
read_graph_raises ==
    /\ pc = "read_graph"
    /\ Raise

\* ------------------------------------------------------------ read_features
read_features ==
    /\ pc = "read_features"
    /\ X' = FeaturesOf(dataset)
    /\ pc' = "propagate"
    /\ stages' = Append(stages, "read_features")
    /\ UNCHANGED <<args, dataset, graphVars, P, B, G, Q, loopVars, out, calls,
                   B0, Bhist, sweepVars, driver>>

\* json.load / pd.read_csv raises on a missing or malformed feature file
read_features_raises ==
    /\ pc = "read_features"
    /\ Raise

\* ------------------------------------------------------------ BANE.fit_base_SVD_model
\* self.P = self.P.dot(self.X)
propagate ==
    /\ pc = "propagate"
    /\ P' = MatMul(P, X, NumNodes, NumNodes, FeatureCount(dataset))
    /\ pc' = "project"
    /\ UNCHANGED <<args, dataset, graphVars, X, B, G, Q, loopVars, out, stages,
                   calls, B0, Bhist, sweepVars, driver>>

\* TruncatedSVD accepts n_components up to the number of features
ProjectionDefined(d, f) == d <= f

\* self.P = self.model.fit_transform(self.P): an n x d matrix
project ==
    /\ pc = "project"
    /\ ProjectionDefined(args.dimensions, FeatureCount(dataset))
    /\ \E k \in 0..MaxTarget : P' = TargetOf(k, args.dimensions)
    /\ pc' = "binary_optimize"
    /\ stages' = Append(stages, "fit_base_SVD_model")
    /\ UNCHANGED <<args, dataset, graphVars, X, B, G, Q, loopVars, out, calls,
                   B0, Bhist, sweepVars, driver>>

project_raises ==
    /\ pc = "project"
    /\ ~ProjectionDefined(args.dimensions, FeatureCount(dataset))
    /\ Raise

\* ------------------------------------------------------------ BANE.binary_optimize
\* np.sign of a matrix, entry by entry
SignMatrix(M, r, c) ==
    Array([i \in Idx(r) |-> [j \in Idx(c) |-> Sign(M[i][j])]], r, c)

\* self.B = np.sign(np.random.normal(size=(self.P.shape[0], self.args.dimensions)))
InitialB(k, d) == SignMatrix(SampleOf(k, d), NumNodes, d)

\* mutant: one round too many
MoreRoundsInclusive(r, a) == r <= a.binarization_rounds

\* the loop test of `for _ in range(self.args.binarization_rounds)`
MoreRounds(r, a) == r < a.binarization_rounds

\* mutant: a sweep loop that tests after its first pass
MoreSweepsAtLeastOnce(s, a) == s = 0 \/ s < a.approximation_rounds

\* the loop test of `for _ in range(self.args.approximation_rounds)`
MoreSweeps(s, a) == s < a.approximation_rounds

binary_optimize ==
    /\ pc = "binary_optimize"
    /\ \E k \in 0..MaxSample : B' = InitialB(k, args.dimensions)
    /\ B0' = B'
    /\ Bhist' = <<B'>>
    /\ rnd' = 0
    /\ pc' = "rounds"
    /\ UNCHANGED <<args, dataset, graphVars, X, P, G, Q, sweep, dim, out,
                   stages, calls, sweepVars, driver>>

\* the head of binary_optimize's loop: one more round, or return to fit and main
rounds ==
    /\ pc = "rounds"
    /\ IF MoreRounds(rnd, args)
       THEN /\ pc' = "update_G"
            /\ UNCHANGED stages
       ELSE /\ pc' = "save_embedding"
            /\ stages' = Append(stages, "binary_optimize")
    /\ UNCHANGED <<args, dataset, graphVars, X, P, B, G, Q, loopVars, out,
                   calls, B0, Bhist, sweepVars, driver>>

\* B^T B + alpha I, the matrix update_G inverts
Gram(Bm, alpha, d) ==
    MatAdd(MatMul(Transpose(Bm, NumNodes, d), Bm, d, NumNodes, d),
           ScaledEye(alpha, d), d, d)

\* inv(B^T B + alpha I) . B^T . P, as adjugate . B^T . P over the determinant
Kernel(Bm, Pm, alpha, d) ==
    [num |-> MatMul(MatMul(Adj(Gram(Bm, alpha, d), d),
                           Transpose(Bm, NumNodes, d), d, d, NumNodes),
                    Pm, d, NumNodes, d),
     den |-> Det(Gram(Bm, alpha, d), d)]

\* mutant: the kernel is computed once per object and then reused
NewGCached(Bm, Pm, Gm, alpha, d) ==
    IF Gm = UnsetRational THEN Kernel(Bm, Pm, alpha, d) ELSE Gm

\* what update_G assigns to self.G
NewG(Bm, Pm, Gm, alpha, d) == Kernel(Bm, Pm, alpha, d)

update_G ==
    /\ pc = "update_G"
    /\ Det(Gram(B, args.alpha, args.dimensions), args.dimensions) # 0
    /\ G' = NewG(B, P, G, args.alpha, args.dimensions)
    /\ calls' = Append(calls, <<"update_G", rnd, 0, 0>>)
    /\ pc' = "update_Q"
    /\ UNCHANGED <<args, dataset, graphVars, X, P, B, Q, loopVars, out, stages,
                   B0, Bhist, sweepVars, driver>>

\* numpy.linalg.inv raises LinAlgError on a singular matrix
update_G_raises ==
    /\ pc = "update_G"
    /\ Det(Gram(B, args.alpha, args.dimensions), args.dimensions) = 0
    /\ Raise

\* mutant: the rescaled target is computed once per object and then reused
NewQCached(Gm, Pm, Qm, d) ==
    IF Qm = UnsetRational
    THEN [num |-> Transpose(MatMul(Gm.num, Transpose(Pm, NumNodes, d), d, d, NumNodes),
                            d, NumNodes),
          den |-> Gm.den]
    ELSE Qm

\* mutant: update_Q also replaces the target P by the rescaled target
update_Q_retargets ==
    /\ pc = "update_Q"
    /\ Q' = [num |-> Transpose(MatMul(G.num, Transpose(P, NumNodes, args.dimensions),
                                      args.dimensions, args.dimensions, NumNodes),
                               args.dimensions, NumNodes),
             den |-> G.den]
    /\ P' = Q'.num
    /\ calls' = Append(calls, <<"update_Q", rnd, 0, 0>>)
    /\ pc' = "update_B"
    /\ sweep' = 0
    /\ dim' = 0
    /\ sweepStart' = B
    /\ sweepLog' = <<>>
    /\ UNCHANGED <<args, dataset, graphVars, X, B, G, rnd, out, stages, B0,
                   Bhist, driver>>

\* what update_Q assigns to self.Q:
\* self.G.dot(self.P.transpose()).transpose(), over G's denominator
NewQ(Gm, Pm, Qm, d) ==
    [num |-> Transpose(MatMul(Gm.num, Transpose(Pm, NumNodes, d), d, d, NumNodes),
                       d, NumNodes),
     den |-> Gm.den]

update_Q ==
    /\ pc = "update_Q"
    /\ Q' = NewQ(G, P, Q, args.dimensions)
    /\ calls' = Append(calls, <<"update_Q", rnd, 0, 0>>)
    /\ pc' = "update_B"
    /\ sweep' = 0
    /\ dim' = 0
    /\ sweepStart' = B
    /\ sweepLog' = <<>>
    /\ UNCHANGED <<args, dataset, graphVars, X, P, B, G, rnd, out, stages, B0,
                   Bhist, driver>>

\* B[i, sel] . G[sel, :] . G[:, k], times G's denominator squared
Coupling(Bm, Gm, i, k, d) ==
    CHOOSE e \in {SumTo([c \in Idx(d) |->
                            SumTo([s \in Idx(d) |->
                                      IF s = k THEN 0 ELSE b[i][s] * g[s][c]], d)
                            * g[c][k]], d) : b \in {Bm}, g \in {Gm.num}} : TRUE

\* np.sign of Q[i, k] - B[i, sel] . G[sel, :] . G[:, k]: the two fractions are
\* brought to their common denominator, which is positive
ResidualSign(Bm, Gm, Qm, i, k, d) ==
    LET gd2 == Gm.den * Gm.den
        qd == Abs(Qm.den)
        qn == Sign(Qm.den) * Qm.num[i][k]
        l == Lcm(qd, gd2)
    IN  Sign(qn * (l \div qd) - Coupling(Bm, Gm, i, k, d) * (l \div gd2))

\* the column update_B writes into B[:, k], read from the matrix Bm
NewColumn(Bm, Gm, Qm, k, d) ==
    Explicit([i \in Rows |-> ResidualSign(Bm, Gm, Qm, i, k, d)], NumNodes)

\* the matrix Bm with column k replaced
WithColumn(Bm, k, col, d) ==
    CHOOSE e \in {Array([i \in Rows |-> [j \in Idx(d) |->
                            IF j = k THEN v[i] ELSE b[i][j]]],
                        NumNodes, d) : b \in {Bm}, v \in {col}} : TRUE

\* mutant: every dimension is updated from the matrix the sweep began with
ReadSweepStart(Bm, start, k, d) == start

\* the matrix whose columns the update of dimension k reads: self.B itself
ReadMatrix(Bm, start, k, d) == Bm

\* the first dimension of a sweep, and the dimension after k: range(dimensions)
FirstDim(d) == 0

NextDim(k, d) == k + 1

SweepOver(k, d) == k \notin Idx(d)

\* one pass of update_B's inner loop: lines 68 to 70 for d = dim
update_B ==
    /\ pc = "update_B"
    /\ MoreSweeps(sweep, args)
    /\ LET d == args.dimensions
           start == IF dim = FirstDim(d) THEN B ELSE sweepStart
           log == IF dim = FirstDim(d) THEN <<>> ELSE sweepLog
           col == NewColumn(ReadMatrix(B, start, dim, d), G, Q, dim, d)
       IN  /\ B' = WithColumn(B, dim, col, d)
           /\ calls' = Append(calls, <<"update_B", rnd, sweep, dim>>)
           /\ sweepStart' = start
           /\ sweepLog' = Append(log, [dim |-> dim, col |-> col])
           /\ IF SweepOver(NextDim(dim, d), d)
              THEN /\ sweep' = sweep + 1
                   /\ dim' = FirstDim(d)
              ELSE /\ sweep' = sweep
                   /\ dim' = NextDim(dim, d)
    /\ UNCHANGED <<pc, args, dataset, graphVars, X, P, G, Q, rnd, out, stages,
                   B0, Bhist, driver>>

\* update_B's outer loop is exhausted: the round is over
update_B_return ==
    /\ pc = "update_B"
    /\ ~MoreSweeps(sweep, args)
    /\ rnd' = rnd + 1
    /\ Bhist' = Append(Bhist, B)
    /\ pc' = "rounds"
    /\ UNCHANGED <<args, dataset, graphVars, X, P, B, G, Q, sweep, dim, out,
                   stages, calls, B0, sweepVars, driver>>

\* ------------------------------------------------------------ BANE.save_embedding
\* how to_csv writes a float64 holding an integer: 1.0, -1.0, 0.0
FloatText(x) == ToString(x) \o ".0"

\* ["id"] + ["x_" + str(d) for d in range(dimensions)]
Header(d) == [c \in 1..(d + 1) |-> IF c = 1 THEN "id" ELSE "x_" \o ToString(c - 2)]

\* mutant: ids counted from 1
RowIdOneBased(r) == r + 1

\* the id of the row at position r (0-based) of self.B
RowId(r) == r

\* np.concatenate([ids column, self.B], axis=1): a float array, row by row
ExportRows(Bm, d) ==
    [r \in 1..NumNodes |->
        [c \in 1..(d + 1) |->
            FloatText(IF c = 1 THEN RowId(r - 1) ELSE Bm[r - 1][c - 2])]]

save_embedding ==
    /\ pc = "save_embedding"
    /\ out' = [header |-> Header(args.dimensions),
               rows |-> ExportRows(B, args.dimensions)]
    /\ pc' = "done"
    /\ stages' = Append(stages, "save_embedding")
    /\ UNCHANGED <<args, dataset, graphVars, X, P, B, G, Q, loopVars, calls,
                   B0, Bhist, sweepVars, driver>>

\* to_csv raises when the output directory does not exist
save_embedding_raises ==
    /\ pc = "save_embedding"
    /\ Raise

\* ------------------------------------------------------------ main()
Init ==
    /\ pc = "read_graph"
    /\ args \in ArgsSet
    /\ dataset \in 0..MaxData
    /\ propagator = Unset
    /\ powered_P = Unset
    /\ iter = 0
    /\ X = Unset
    /\ P = Unset
    /\ B = Unset
    /\ G = UnsetRational
    /\ Q = UnsetRational
    /\ rnd = 0
    /\ sweep = 0
    /\ dim = 0
    /\ out = NoFile
    /\ mults = 0
    /\ stages = <<>>
    /\ calls = <<>>
    /\ B0 = Unset
    /\ Bhist = <<>>
    /\ sweepStart = Unset
    /\ sweepLog = <<>>
    /\ run = 0
    /\ ref = <<>>
    /\ total = 0
    /\ stale = FALSE

Next ==
    \/ read_graph
    \/ power_step
    \/ read_graph_raises
    \/ read_features
    \/ read_features_raises
    \/ propagate
    \/ project
    \/ project_raises
    \/ binary_optimize
    \/ rounds
    \/ update_G
    \/ update_G_raises
    \/ update_Q
    \/ update_B
    \/ update_B_return
    \/ save_embedding
    \/ save_embedding_raises

Spec == Init /\ [][Next]_vars

\* main() is one thread that runs until it returns or raises
FairSpec == Spec /\ WF_vars(Next)

\* ------------------------------------------------------------ repeated runs
\* A driver that calls binary_optimize three times on one projected target:
\* directly for binarization_rounds rounds (run 1), then from the same initial
\* B for k1 rounds (run 2), then from run 2's resulting B for the remaining
\* rounds (run 3).  A later leg starts either on a new BANE object (G and Q
\* unset) or on the old one (G and Q left over).
InitRuns ==
    /\ pc = "binary_optimize"
    /\ args \in {a \in ArgsSet : a.order = 1}
    /\ dataset = 0
    /\ propagator = Unset
    /\ powered_P = Unset
    /\ iter = 0
    /\ X = Unset
    /\ \E k \in 0..MaxTarget : P = TargetOf(k, args.dimensions)
    /\ B = Unset
    /\ G = UnsetRational
    /\ Q = UnsetRational
    /\ rnd = 0
    /\ sweep = 0
    /\ dim = 0
    /\ out = NoFile
    /\ mults = 0
    /\ stages = <<>>
    /\ calls = <<>>
    /\ B0 = Unset
    /\ Bhist = <<>>
    /\ sweepStart = Unset
    /\ sweepLog = <<>>
    /\ run = 1
    /\ ref = <<>>
    /\ total = args.binarization_rounds
    /\ stale = FALSE

\* the direct run is over: start again from the same initial B, for k1 rounds
first_leg ==
    /\ pc = "save_embedding"
    /\ run = 1
    /\ \E k1 \in 0..Max0(total) :
          args' = [args EXCEPT !.binarization_rounds = k1]
    /\ ref' = Bhist
    /\ B' = B0
    /\ Bhist' = <<B0>>
    /\ \E keep \in BOOLEAN :
          /\ stale' = keep
          /\ G' = IF keep THEN G ELSE UnsetRational
          /\ Q' = IF keep THEN Q ELSE UnsetRational
    /\ rnd' = 0
    /\ calls' = <<>>
    /\ run' = 2
    /\ pc' = "rounds"
    /\ UNCHANGED <<dataset, graphVars, X, P, sweep, dim, out, stages, B0,
                   sweepVars, total>>

\* the first leg is over: its B initialises a run of the remaining rounds
second_leg ==
    /\ pc = "save_embedding"
    /\ run = 2
    /\ args' = [args EXCEPT !.binarization_rounds = total - @]
    /\ B' = SignMatrix(B, NumNodes, args.dimensions)
    /\ \E keep \in BOOLEAN :
          /\ stale' = keep
          /\ G' = IF keep THEN G ELSE UnsetRational
          /\ Q' = IF keep THEN Q ELSE UnsetRational
    /\ rnd' = 0
    /\ calls' = <<>>
    /\ run' = 3
    /\ pc' = "rounds"
    /\ UNCHANGED <<dataset, graphVars, X, P, sweep, dim, out, stages, B0,
                   Bhist, sweepVars, ref, total>>

NextRuns ==
    \/ binary_optimize
    \/ rounds
    \/ update_G
    \/ update_G_raises
    \/ update_Q
    \/ update_B
    \/ update_B_return
    \/ first_leg
    \/ second_leg

SpecRuns == InitRuns /\ [][NextRuns]_vars

\* ------------------------------------------------------------ claims
\* B has been initialised by binary_optimize
Initialised == B # Unset

InOptimizer == pc \in {"rounds", "update_G", "update_Q", "update_B"}

OptimizerDone == pc \in {"save_embedding", "done"}

BinaryMatrix(M, d) == \A i \in Rows : \A j \in Idx(d) : M[i][j] \in {-1, 1}

\* C1: in every state after binary_optimize has initialised B, every entry of
\* B is -1 or +1.
C1_BinaryInvariant == Initialised => BinaryMatrix(B, args.dimensions)

\* the steps of one round: update_G, update_Q, then the dimension updates
RoundLength(a) == 2 + Max0(a.approximation_rounds) * a.dimensions

\* the m-th step of a run of the optimizer
ExpectedCall(m, a) ==
    LET r == (m - 1) \div RoundLength(a)
        o == (m - 1) % RoundLength(a)
    IN  IF o = 0 THEN <<"update_G", r, 0, 0>>
        ELSE IF o = 1 THEN <<"update_Q", r, 0, 0>>
        ELSE <<"update_B", r, (o - 2) \div a.dimensions, (o - 2) % a.dimensions>>

ExpectedLength(a) == Max0(a.binarization_rounds) * RoundLength(a)

\* the safety part of C2
RoundCountSafe ==
    /\ Len(calls) <= ExpectedLength(args)
    /\ \A m \in 1..Len(calls) : calls[m] = ExpectedCall(m, args)
    /\ OptimizerDone =>
          /\ Len(calls) = ExpectedLength(args)
          /\ rnd = Max0(args.binarization_rounds)
    /\ (pc = "failed" /\ Initialised) =>
          (args.alpha <= 0 \/ rnd >= Max0(args.binarization_rounds))

\* C2: the optimizer's steps are, in this order, binarization_rounds rounds of
\* update_G, update_Q and approximation_rounds sweeps over dimensions
\* 0..d-1; it is Done exactly when all of them are done, and once in its
\* loop it does become Done, unless numpy.linalg.inv raises on a singular
\* B^T B + alpha I, which needs alpha <= 0.
C2_RoundCount ==
    /\ []RoundCountSafe
    /\ InOptimizer ~> (OptimizerDone \/ (pc = "failed" /\ args.alpha <= 0))

C2_Witness ==
    /\ pc = "done"
    /\ args.binarization_rounds = MaxRounds
    /\ args.approximation_rounds = MaxApprox
    /\ args.dimensions = MaxDim
    /\ args.alpha > 0
    /\ \E m \in 1..Len(Bhist) - 1 : Bhist[m] # Bhist[m + 1]

\* the matrix whose first k columns are those the sweep has written and whose
\* other columns are those of the matrix the sweep began with
Hybrid(log, start, k, d) ==
    Array([i \in Rows |-> [j \in Idx(d) |->
              IF j < k THEN log[j + 1].col[i] ELSE start[i][j]]],
          NumNodes, d)

\* C3: within a sweep the dimensions are updated in increasing order, and
\* the update of dimension k is computed from the columns j < k as written
\* earlier in this sweep and the columns j > k as they were when the sweep
\* began.
C3_Sequencing ==
    (pc = "update_B" /\ Len(sweepLog) > 0) =>
        /\ \A m \in 1..Len(sweepLog) :
              /\ sweepLog[m].dim = m - 1
              /\ sweepLog[m].col =
                    NewColumn(Hybrid(sweepLog, sweepStart, m - 1, args.dimensions),
                              G, Q, m - 1, args.dimensions)
        /\ B = Hybrid(sweepLog, sweepStart, Len(sweepLog), args.dimensions)

\* dimension 1 of 3 has been updated from a column 0 that this sweep changed,
\* and the columns as the sweep began would have given another result
C3_Witness ==
    /\ pc = "update_B"
    /\ args.dimensions = 3
    /\ Len(sweepLog) >= 2
    /\ \E i \in Rows : sweepLog[1].col[i] # sweepStart[i][0]
    /\ sweepLog[2].col # NewColumn(sweepStart, G, Q, 1, 3)

\* the rounds of the first and of the second leg
FirstLegRounds == total - args.binarization_rounds

SecondLegRounds == args.binarization_rounds

SplitDone == run = 3 /\ pc = "save_embedding"

\* C4 (as amended): k1 rounds followed by k2 rounds from the resulting B end
\* in the same B as k1 + k2 rounds run directly from the same initial B.
C4_Composes == SplitDone => B = ref[Len(ref)]

\* C4 (as claimed): k1 >= 1 rounds followed by k2 >= 1 rounds from the
\* resulting B, each leg changing B, do not end in the B of k1 + k2 direct
\* rounds.
C4_DoesNotCompose ==
    (/\ SplitDone
     /\ FirstLegRounds >= 1
     /\ SecondLegRounds >= 1
     /\ ref[FirstLegRounds + 1] # ref[1]
     /\ B # ref[FirstLegRounds + 1])
        => B # ref[Len(ref)]

\* both legs ran, both changed B
C4_Witness ==
    /\ SplitDone
    /\ FirstLegRounds >= 1
    /\ SecondLegRounds >= 1
    /\ ref[FirstLegRounds + 1] # ref[1]
    /\ B # ref[FirstLegRounds + 1]

\* the file has been written
Written == out # NoFile

Pipeline ==
    <<"read_graph", "read_features", "fit_base_SVD_model", "binary_optimize",
      "save_embedding">>

\* C5: the steps complete in the pipeline's order; the file exists only when
\* main() is done, after all of them and all rounds; a failed run has written
\* nothing and takes no further step.
C5_AllOrNothing ==
    /\ Len(stages) <= Len(Pipeline)
    /\ stages = SubSeq(Pipeline, 1, Len(stages))
    /\ Written =>
          /\ pc = "done"
          /\ stages = Pipeline
          /\ rnd = Max0(args.binarization_rounds)
          /\ Len(calls) = ExpectedLength(args)
    /\ pc = "failed" => (~Written /\ ~ENABLED Next)

\* update_G raised in a later round, after a whole round had updated B
C5_Witness ==
    /\ pc = "failed"
    /\ Initialised
    /\ rnd >= 1
    /\ rnd < args.binarization_rounds
    /\ B # B0
    /\ ~Written

\* C6: a run started from the same initial B, P and parameters has the same B
\* at every round boundary as the direct run, whether or not it starts with
\* the G and Q an earlier run left behind, and so does its continuation.
C6_Deterministic ==
    run \in {2, 3} =>
        /\ Len(Bhist) <= Len(ref)
        /\ \A m \in 1..Len(Bhist) : Bhist[m] = ref[m]

\* a leg that began with left-over G and Q, computed from another B than its
\* own first round's, has completed a round that changed B
C6_Witness ==
    /\ run = 2
    /\ stale
    /\ pc = "rounds"
    /\ rnd >= 1
    /\ Len(ref) >= 3
    /\ ref[Len(ref) - 1] # ref[1]
    /\ B # B0

\* the number a cell of the file reads as
CellValue(t) == CHOOSE v \in (-NumNodes - 1)..(NumNodes + 1) : FloatText(v) = t

ColumnNames == <<"id", "x_0", "x_1", "x_2", "x_3", "x_4", "x_5">>

\* C7: the file has the header id, x_0, ..., x_{d-1} and one row per row of
\* B, in row order, holding the 0-based row index and then that row of B.
C7_Export ==
    pc = "done" =>
        /\ out.header = SubSeq(ColumnNames, 1, args.dimensions + 1)
        /\ Len(out.rows) = NumNodes
        /\ \A r \in 1..NumNodes :
              /\ Len(out.rows[r]) = args.dimensions + 1
              /\ CellValue(out.rows[r][1]) = r - 1
              /\ \A j \in Idx(args.dimensions) :
                    CellValue(out.rows[r][j + 2]) = B[r - 1][j]

\* a file of MaxDim columns whose rows differ
C7_Witness ==
    /\ pc = "done"
    /\ args.dimensions = MaxDim
    /\ args.binarization_rounds >= 1
    /\ \A r \in 1..(NumNodes - 1) : Tail(out.rows[r]) # Tail(out.rows[r + 1])

RECURSIVE MatPow(_, _)
\* the k-th power of the n x n matrix M, k >= 1
MatPow(M, k) ==
    IF k <= 1 THEN M ELSE MatMul(M, MatPow(M, k - 1), NumNodes, NumNodes, NumNodes)

\* C8: once read_graph has returned (order >= 1), it has done exactly
\* order - 1 matrix products and its result is the order-th power of the
\* normalized propagator; with order = 1 that is the propagator itself.
C8_Powering ==
    Len(stages) >= 1 =>
        /\ mults = args.order - 1
        /\ powered_P = MatPow(propagator, args.order)
        /\ pc = "read_features" => P = powered_P
        /\ args.order = 1 => powered_P = propagator

\* read_graph has returned a power of the propagator that is not the propagator
C8_Witness ==
    /\ pc = "read_features"
    /\ args.order = MaxOrder
    /\ mults >= 1
    /\ P # propagator

\* C9: no step of the optimizer changes P (or X, or the parameters);
\* update_G changes neither B nor Q, update_Q neither B nor G, the updates of
\* update_B neither G nor Q, and the loop head none of them.
C9_Frame ==
    [][InOptimizer =>
          /\ P' = P
          /\ X' = X
          /\ args' = args
          /\ pc = "update_G" => (B' = B /\ Q' = Q)
          /\ pc = "update_Q" => (B' = B /\ G' = G)
          /\ pc = "update_B" => (G' = G /\ Q' = Q)
          /\ pc = "rounds" => (B' = B /\ G' = G /\ Q' = Q)]_vars

\* a second round has recomputed G and Q after the first round changed B
C9_Witness ==
    /\ pc = "update_B"
    /\ rnd = 1
    /\ Bhist[2] # Bhist[1]
    /\ P # TargetOf(0, args.dimensions)

\* C10: with binarization_rounds <= 0 no step of the optimizer runs, G and Q
\* are never computed and the file holds the initial B; with
\* approximation_rounds <= 0 every round computes G and Q and B stays the
\* initial B.
C10_ZeroRounds ==
    /\ (Initialised /\ args.binarization_rounds <= 0) =>
          /\ calls = <<>>
          /\ G = UnsetRational
          /\ Q = UnsetRational
          /\ B = B0
          /\ pc \in {"rounds", "save_embedding", "done", "failed"}
          /\ Written => out.rows = ExportRows(B0, args.dimensions)
    /\ (Initialised /\ args.approximation_rounds <= 0) =>
          /\ B = B0
          /\ \A m \in 1..Len(calls) : calls[m][1] # "update_B"
          /\ OptimizerDone => Len(calls) = 2 * Max0(args.binarization_rounds)
          /\ Written => out.rows = ExportRows(B0, args.dimensions)

\* a run of MaxRounds rounds without sweeps has been exported
C10_Witness ==
    /\ pc = "done"
    /\ args.approximation_rounds <= 0
    /\ args.binarization_rounds = MaxRounds
    /\ G # UnsetRational
    /\ Q # UnsetRational
    /\ Len(calls) = 2 * MaxRounds

\* a run of no rounds has been exported
C10_WitnessNoRounds ==
    /\ pc = "done"
    /\ args.binarization_rounds <= 0
    /\ args.approximation_rounds >= 1
    /\ Written

====
